---- MODULE Spec2Model ----
(***************************************************************************)
(* Model of gold_shop.py: the generate_invoice handler (validation,        *)
(* pricing, ledger append, invoice document, ledger back-fill) and the     *)
(* two stores it writes, sales.xlsx and the invoices/ directory.           *)
(*                                                                         *)
(* Text is a sequence of one-character strings, so that strip(), isdigit() *)
(* int() and float() are computed and not assumed.  Python floats are      *)
(* modelled as exact rationals [n, d]; round(x, 2) yields an integer       *)
(* number of hundredths and resolves an exact decimal tie either way,      *)
(* because the binary double nearest to a decimal tie lies on either side  *)
(* of it (round(0.005, 2) = 0.01 but round(2.675, 2) = 2.67).              *)
(***************************************************************************)
EXTENDS Integers, Sequences, FiniteSets, TLC

VARIABLES
  form,      \* per operator: the text in the entry widgets (lines 333-346)
  pc,        \* per operator: position inside generate_invoice
  sub,       \* per operator: the locals read at lines 57-65
  bd,        \* per operator: the parsed and rounded locals of lines 75-115
  wb,        \* per operator: the workbook object loaded from sales.xlsx
  path,      \* per operator: invoice path built at line 157
  outcome,   \* per operator: the dialog shown by the last call
  sales,     \* the file sales.xlsx: header cell R1 and the data rows
  invoices,  \* the directory invoices/: file name -> document
  now,       \* the wall clock, in whole seconds
  nsub,      \* history: number of calls of generate_invoice so far
  sid,       \* history: per operator, number of its current call
  pre,       \* history: per operator, the stores when its call began
  fault      \* history: per operator, the step of its call that raised

vars == <<form, pc, sub, bd, wb, path, outcome,
          sales, invoices, now, nsub, sid, pre, fault>>

----------------------------------------------------------------------------
(* Bounds of the exploration *)

MaxSubs == 2
MaxTime == 1

----------------------------------------------------------------------------
(* Text *)

Digits == {"0", "1", "2", "3", "4", "5", "6", "7", "8", "9"}

DigitVal(c) ==
  CASE c = "0" -> 0 [] c = "1" -> 1 [] c = "2" -> 2 [] c = "3" -> 3
    [] c = "4" -> 4 [] c = "5" -> 5 [] c = "6" -> 6 [] c = "7" -> 7
    [] c = "8" -> 8 [] c = "9" -> 9

Front(s) == SubSeq(s, 1, Len(s) - 1)

RECURSIVE LStrip(_)
LStrip(s) == IF s # <<>> /\ Head(s) = " " THEN LStrip(Tail(s)) ELSE s

RECURSIVE RStrip(_)
RStrip(s) == IF s # <<>> /\ s[Len(s)] = " " THEN RStrip(Front(s)) ELSE s

\* str.strip()
Strip(s) == RStrip(LStrip(s))

\* entry.get().strip() or "0"
OrZero(s) == IF Strip(s) = <<>> THEN <<"0">> ELSE Strip(s)

\* str.isdigit()
IsDigit(s) == s # <<>> /\ \A i \in 1..Len(s) : s[i] \in Digits

RECURSIVE DigitsVal(_)
DigitsVal(s) == IF s = <<>> THEN 0
                ELSE 10 * DigitsVal(Front(s)) + DigitVal(s[Len(s)])

RECURSIVE Pow10(_)
Pow10(k) == IF k = 0 THEN 1 ELSE 10 * Pow10(k - 1)

----------------------------------------------------------------------------
(* Exact rationals standing for Python floats *)

Abs(x) == IF x < 0 THEN -x ELSE x

RECURSIVE GCD(_, _)
GCD(a, b) == IF b = 0 THEN a ELSE GCD(b, a % b)

Rat(n, d) ==
  LET g == GCD(Abs(n), Abs(d))
      s == IF d < 0 THEN -1 ELSE 1
  IN  [n |-> (s * n) \div g, d |-> (s * d) \div g]

RInt(k) == [n |-> k, d |-> 1]
RAdd(a, b) == Rat(a.n * b.d + b.n * a.d, a.d * b.d)
RSub(a, b) == Rat(a.n * b.d - b.n * a.d, a.d * b.d)
RMul(a, b) == Rat(a.n * b.n, a.d * b.d)
RDivInt(a, k) == Rat(a.n, a.d * k)
RLeqZero(a) == a.n <= 0
RNegAbs(a) == [n |-> -Abs(a.n), d |-> a.d]

\* x * 100 is exactly halfway between two integers
IsTie(q) == (2 * ((q.n * 100) % q.d)) = q.d

\* round(x, 2), in hundredths; up is the set of tie values that the double
\* representation resolves upwards
Round2(q, up) ==
  LET m  == q.n * 100
      fl == m \div q.d
      r  == m % q.d
  IN  IF 2 * r < q.d THEN fl
      ELSE IF 2 * r > q.d THEN fl + 1
      ELSE IF q \in up THEN fl + 1 ELSE fl

----------------------------------------------------------------------------
(* int() and float() on stripped text *)

Unsigned(s) == IF s # <<>> /\ s[1] \in {"-", "+"} THEN Tail(s) ELSE s
IsNeg(s) == s # <<>> /\ s[1] = "-"

IntOk(s) == IsDigit(Unsigned(s))
IntVal(s) == IF IsNeg(s) THEN -DigitsVal(Unsigned(s)) ELSE DigitsVal(Unsigned(s))

DotPos(s) == {i \in 1..Len(s) : s[i] = "."}

FloatOk(s) ==
  LET u == Unsigned(s)
  IN  /\ u # <<>>
      /\ \A i \in 1..Len(u) : u[i] \in Digits \cup {"."}
      /\ Cardinality(DotPos(u)) <= 1
      /\ \E i \in 1..Len(u) : u[i] \in Digits

FloatVal(s) ==
  LET u    == Unsigned(s)
      dots == DotPos(u)
      k    == IF dots = {} THEN Len(u) + 1 ELSE CHOOSE i \in dots : TRUE
      ds   == SubSeq(u, 1, k - 1) \o SubSeq(u, k + 1, Len(u))
      mag  == Rat(DigitsVal(ds), Pow10(Len(u) + 1 - k - (IF dots = {} THEN 0 ELSE 1)))
  IN  IF IsNeg(s) THEN [n |-> -mag.n, d |-> mag.d] ELSE mag

----------------------------------------------------------------------------
(* Validation, lines 57-92 *)

IntraLabel == <<"Intra-state (CGST+SGST)">>
InterLabel == <<"Inter-state (IGST)">>

MsgName    == "Enter customer name."
MsgPhone   == "Enter valid phone (digits only)."
MsgNumeric == "Enter valid numeric values for rate/weight/making/discount/GST."
MsgCarat   == "Carat must be between 1 and 24."
MsgWeight  == "Weight must be positive."
MsgGstType == "Select GST Type."
MsgOk      == "ok"

\* lines 57-65: the widget contents as read by the handler
ReadInputs(f) ==
  [cust     |-> Strip(f.customer),
   phone    |-> Strip(f.phone),
   rate     |-> Strip(f.rate),
   carat    |-> Strip(f.carat),
   weight   |-> Strip(f.weight),
   making   |-> OrZero(f.making),
   discount |-> OrZero(f.discount),
   gst      |-> OrZero(f.gst),
   gst_type |-> Strip(f.gst_type)]

\* the try block of lines 74-83
ParseOk(r) ==
  /\ FloatOk(r.rate)
  /\ FloatOk(r.weight)
  /\ IntOk(r.carat)
  /\ FloatOk(r.making)
  /\ FloatOk(r.discount)
  /\ FloatOk(r.gst)

\* mutant: the weight check of lines 87-89 left out
WeightCheckSkipped(r) == FALSE

\* lines 87-89
WeightCheckFails(r) == RLeqZero(FloatVal(r.weight))

\* lines 84-86
CaratCheckFails(r) == IntVal(r.carat) <= 0 \/ IntVal(r.carat) > 24

\* mutant: the weight check moved ahead of the carat check
ValidateWeightFirst(r) ==
  IF r.cust = <<>> THEN MsgName
  ELSE IF ~IsDigit(r.phone) \/ Len(r.phone) < 6 THEN MsgPhone
  ELSE IF ~ParseOk(r) THEN MsgNumeric
  ELSE IF WeightCheckFails(r) THEN MsgWeight
  ELSE IF CaratCheckFails(r) THEN MsgCarat
  ELSE IF r.gst_type \notin {IntraLabel, InterLabel} THEN MsgGstType
  ELSE MsgOk

\* lines 67-92; r is ReadInputs(form)
Validate(r) ==
  IF r.cust = <<>> THEN MsgName
  ELSE IF ~IsDigit(r.phone) \/ Len(r.phone) < 6 THEN MsgPhone
  ELSE IF ~ParseOk(r) THEN MsgNumeric
  ELSE IF CaratCheckFails(r) THEN MsgCarat
  ELSE IF WeightCheckFails(r) THEN MsgWeight
  ELSE IF r.gst_type \notin {IntraLabel, InterLabel} THEN MsgGstType
  ELSE MsgOk

----------------------------------------------------------------------------
(* Pricing, lines 94-115 *)

\* lines 95-106, full precision
Exact(r) ==
  LET rate     == FloatVal(r.rate)
      weight   == FloatVal(r.weight)
      carat    == IntVal(r.carat)
      making   == FloatVal(r.making)
      discount == FloatVal(r.discount)
      gst_rate == FloatVal(r.gst)
      purity   == Rat(carat, 24)
      gold     == RMul(RMul(weight, purity), rate)
      taxable  == RSub(RAdd(gold, making), discount)
      gst      == RMul(taxable, RDivInt(gst_rate, 100))
      intra    == r.gst_type = IntraLabel
  IN  [gold_value  |-> gold,
       taxable     |-> taxable,
       gst_total   |-> gst,
       cgst        |-> IF intra THEN RDivInt(gst, 2) ELSE RInt(0),
       sgst        |-> IF intra THEN RDivInt(gst, 2) ELSE RInt(0),
       igst        |-> IF intra THEN RInt(0) ELSE gst,
       grand_total |-> RAdd(taxable, gst)]

TieValues(x) ==
  {q \in {x.gold_value, x.taxable, x.gst_total, x.cgst, x.sgst, x.igst,
          x.grand_total} : IsTie(q)}

\* lines 108-115 together with the parsed inputs the later steps use
Breakdown(r, up) ==
  LET x == Exact(r)
  IN  [cust        |-> r.cust,
       phone       |-> r.phone,
       carat       |-> IntVal(r.carat),
       weight      |-> FloatVal(r.weight),
       rate        |-> FloatVal(r.rate),
       making      |-> FloatVal(r.making),
       discount    |-> FloatVal(r.discount),
       gst_type    |-> r.gst_type,
       gst_rate    |-> FloatVal(r.gst),
       gold_value  |-> Round2(x.gold_value, up),
       taxable     |-> Round2(x.taxable, up),
       gst_total   |-> Round2(x.gst_total, up),
       cgst        |-> Round2(x.cgst, up),
       sgst        |-> Round2(x.sgst, up),
       igst        |-> Round2(x.igst, up),
       grand_total |-> Round2(x.grand_total, up)]

\* locals that do not exist outside a call
NoBreakdown == <<>>
NoWorkbook == <<>>
NoPath == <<>>

----------------------------------------------------------------------------
(* The stores *)

SALES_HEADER_18 == <<"Invoice_File">>
INVOICES_DIR == "invoices"

Blank == <<>>

\* strftime down to %S, lines 122, 155 and 188: t is the clock in seconds
Stamp(t) == <<"ts", t>>

\* x if x else ""
Cell(x) == IF x # 0 THEN <<x>> ELSE Blank

\* the list appended at lines 121-126; s tags the row with the call that
\* wrote it
Row(b, t, s) ==
  [dt           |-> Stamp(t),
   cust         |-> b.cust,
   phone        |-> b.phone,
   carat        |-> b.carat,
   weight       |-> b.weight,
   rate         |-> b.rate,
   gold_value   |-> b.gold_value,
   making       |-> b.making,
   discount     |-> b.discount,
   taxable      |-> b.taxable,
   gst_type     |-> b.gst_type,
   gst_rate     |-> b.gst_rate,
   cgst         |-> Cell(b.cgst),
   sgst         |-> Cell(b.sgst),
   igst         |-> Cell(b.igst),
   gst_total    |-> b.gst_total,
   grand_total  |-> b.grand_total,
   invoice_file |-> Blank,
   sid          |-> s]

\* lines 155-157
Fname(t) == <<"Invoice_", Stamp(t), ".xlsx">>
InvoicePath(t) == <<INVOICES_DIR, Fname(t)>>

\* os.path.basename
Basename(pth) == pth[Len(pth)]

\* the cell values written at lines 186-260; s tags the document with the
\* call that wrote it
Doc(b, t, s) ==
  [date        |-> Stamp(t),
   customer    |-> b.cust,
   phone       |-> b.phone,
   carat       |-> b.carat,
   weight      |-> b.weight,
   rate        |-> b.rate,
   gold_value  |-> b.gold_value,
   making      |-> b.making,
   discount    |-> RNegAbs(b.discount),
   taxable     |-> b.taxable,
   gst_type    |-> b.gst_type,
   gst_rate    |-> b.gst_rate,
   breakup     |-> IF b.cgst # 0 \/ b.sgst # 0
                   THEN <<<<"CGST", b.cgst>>, <<"SGST", b.sgst>>>>
                   ELSE <<<<"IGST", b.igst>>>>,
   gst_total   |-> b.gst_total,
   grand_total |-> b.grand_total,
   sid         |-> s]

\* mutant: the header row not counted
MaxRowNoHeader(w) == Len(w.rows)

\* mutant: always the first data row
MaxRowFirstData(w) == IF w.rows = <<>> THEN 1 ELSE 2

\* ws.max_row: the header is row 1
MaxRow(w) == Len(w.rows) + 1

\* mutant: the whole column 18 below the header is set
SetCell18WholeColumn(w, k, v) ==
  [w EXCEPT !.rows = [i \in DOMAIN @ |-> [@[i] EXCEPT !.invoice_file = v]]]

\* ws.cell(row=k, column=18).value = v
SetCell18(w, k, v) ==
  IF k = 1 THEN [w EXCEPT !.header18 = v]
  ELSE [w EXCEPT !.rows[k - 1].invoice_file = v]

\* wb.save(path) of the invoice workbook
WriteFile(dir, name, doc) ==
  [f \in DOMAIN dir \cup {name} |-> IF f = name THEN doc ELSE dir[f]]

----------------------------------------------------------------------------
(* Operators and the text they type *)

Procs == {1, 2}

S6 == <<"1", "2", "3", "4", "5", "6">>

\* lines 333-346
DefaultForm ==
  [customer |-> <<>>, phone |-> <<>>, rate |-> <<>>, carat |-> <<"2", "2">>,
   weight |-> <<>>, making |-> <<"0">>, discount |-> <<"0">>,
   gst |-> <<"3", ".", "0">>, gst_type |-> IntraLabel]

FilledForm ==
  [DefaultForm EXCEPT !.customer = <<" ", "A">>, !.phone = S6,
                      !.rate = <<"7">>, !.weight = <<"1">>,
                      !.gst = <<"3">>]

SampleForms ==
  { FilledForm,
    [FilledForm EXCEPT !.customer = <<"B">>, !.gst_type = InterLabel,
                       !.weight = <<"1", ".", "5">>, !.making = <<"2">>,
                       !.gst = <<"1", ".", "5">>],
    [FilledForm EXCEPT !.customer = <<" ">>, !.carat = <<"2", "5">>],
    [FilledForm EXCEPT !.phone = <<"1", "2", "a", "4", "5", "6">>],
    [FilledForm EXCEPT !.phone = <<"1", "2", "3", "4", "5">>],
    [FilledForm EXCEPT !.rate = <<"a">>],
    [FilledForm EXCEPT !.carat = <<"0">>],
    [FilledForm EXCEPT !.weight = <<"-", "1">>],
    [FilledForm EXCEPT !.gst_type = <<"x">>] }

CalcForms ==
  [customer : {<<>>, <<"A", " ">>},
   phone    : {S6, <<"1", "2", "3", "4", "5">>, <<"1", "2", "a", "4", "5", "6">>},
   rate     : {<<"1", "0", "0", ".", "5">>, <<"7">>, <<"a">>, <<>>},
   carat    : {<<"2", "4">>, <<"2", "2">>, <<"0">>, <<"2", "5">>,
               <<"2", ".", "5">>, <<"a">>},
   weight   : {<<"1">>, <<"1", ".", "5">>, <<"0">>, <<"-", "1">>, <<"a">>},
   making   : {<<>>, <<"2">>, <<"a">>},
   discount : {<<" ">>, <<"0", ".", "2", "5">>, <<".">>},
   gst      : {<<>>, <<"3">>, <<"1", ".", "5">>, <<"a">>},
   gst_type : {IntraLabel, <<" ">> \o InterLabel, <<>>}]

----------------------------------------------------------------------------
(* The state after build_gui *)

NoOutcome == [title |-> "", msg |-> "", path |-> <<>>]

EmptySales == [header18 |-> SALES_HEADER_18, rows |-> <<>>]

InitForms(f1, f2) ==
  /\ form = [p \in Procs |-> IF p = 1 THEN f1 ELSE f2]
  /\ pc = [p \in Procs |-> "idle"]
  /\ sub = [p \in Procs |-> <<>>]
  /\ bd = [p \in Procs |-> NoBreakdown]
  /\ wb = [p \in Procs |-> NoWorkbook]
  /\ path = [p \in Procs |-> NoPath]
  /\ outcome = [p \in Procs |-> NoOutcome]
  /\ sales = EmptySales
  /\ invoices = <<>>
  /\ now = 0
  /\ nsub = 0
  /\ sid = [p \in Procs |-> 0]
  /\ pre = [p \in Procs |-> [sales |-> EmptySales, invoices |-> <<>>]]
  /\ fault = [p \in Procs |-> "none"]

Init == InitForms(DefaultForm, DefaultForm)

InitCalc == \E f \in CalcForms : InitForms(f, DefaultForm)

----------------------------------------------------------------------------
(* Steps *)

\* the clock advances
Tick ==
  /\ now < MaxTime
  /\ now' = now + 1
  /\ UNCHANGED <<form, pc, sub, bd, wb, path, outcome, sales, invoices,
                 nsub, sid, pre, fault>>

\* lines 55-115 run on widget contents f: read, validate, compute
GenerateWith(p, f) ==
  /\ pc[p] = "idle"
  /\ nsub < MaxSubs
  /\ form' = [form EXCEPT ![p] = f]
  /\ LET r == ReadInputs(f)
         v == Validate(r)
     IN  /\ sub' = [sub EXCEPT ![p] = r]
         /\ IF v # MsgOk
            THEN /\ outcome' = [outcome EXCEPT ![p] =
                      [title |-> "Validation", msg |-> v, path |-> <<>>]]
                 /\ bd' = [bd EXCEPT ![p] = NoBreakdown]
                 /\ pc' = pc
            ELSE /\ outcome' = [outcome EXCEPT ![p] = NoOutcome]
                 /\ \E up \in SUBSET TieValues(Exact(r)) :
                      bd' = [bd EXCEPT ![p] = Breakdown(r, up)]
                 /\ pc' = [pc EXCEPT ![p] = "append_load"]
  /\ nsub' = nsub + 1
  /\ sid' = [sid EXCEPT ![p] = nsub + 1]
  /\ pre' = [pre EXCEPT ![p] = [sales |-> sales, invoices |-> invoices]]
  /\ fault' = [fault EXCEPT ![p] = "none"]
  /\ UNCHANGED <<wb, path, sales, invoices, now>>

\* the button is pressed on the widgets as they stand
Generate(p) == GenerateWith(p, form[p])

\* the operator retypes the widgets and presses the button
EditAndGenerate(p) == \E f \in SampleForms : GenerateWith(p, f)

\* lines 119-120
AppendLoad(p) ==
  /\ pc[p] = "append_load"
  /\ wb' = [wb EXCEPT ![p] = sales]
  /\ pc' = [pc EXCEPT ![p] = "append_save"]
  /\ UNCHANGED <<form, sub, bd, path, outcome, sales, invoices, now,
                 nsub, sid, pre, fault>>

\* lines 121-127
AppendSave(p) ==
  /\ pc[p] = "append_save"
  /\ LET w == [wb[p] EXCEPT !.rows = Append(@, Row(bd[p], now, sid[p]))]
     IN  /\ wb' = [wb EXCEPT ![p] = w]
         /\ sales' = w
  /\ pc' = [pc EXCEPT ![p] = "invoice_name"]
  /\ UNCHANGED <<form, sub, bd, path, outcome, invoices, now,
                 nsub, sid, pre, fault>>

\* mutant: the return of line 130 left out
AppendFailNoReturn(p) ==
  /\ pc[p] \in {"append_load", "append_save"}
  /\ outcome' = [outcome EXCEPT ![p] =
       [title |-> "Error", msg |-> "Failed saving sale record",
        path |-> <<>>]]
  /\ pc' = [pc EXCEPT ![p] = "invoice_name"]
  /\ fault' = [fault EXCEPT ![p] = "append"]
  /\ UNCHANGED <<form, sub, bd, wb, path, sales, invoices, now,
                 nsub, sid, pre>>

\* lines 128-130: load_workbook or save raised
AppendFail(p) ==
  /\ pc[p] \in {"append_load", "append_save"}
  /\ outcome' = [outcome EXCEPT ![p] =
       [title |-> "Error", msg |-> "Failed saving sale record",
        path |-> <<>>]]
  /\ pc' = [pc EXCEPT ![p] = "idle"]
  /\ fault' = [fault EXCEPT ![p] = "append"]
  /\ bd' = [bd EXCEPT ![p] = NoBreakdown]
  /\ wb' = [wb EXCEPT ![p] = NoWorkbook]
  /\ path' = [path EXCEPT ![p] = NoPath]
  /\ UNCHANGED <<form, sub, sales, invoices, now, nsub, sid, pre>>

\* lines 155-157
InvoiceName(p) ==
  /\ pc[p] = "invoice_name"
  /\ path' = [path EXCEPT ![p] = InvoicePath(now)]
  /\ pc' = [pc EXCEPT ![p] = "invoice_save"]
  /\ UNCHANGED <<form, sub, bd, wb, outcome, sales, invoices, now,
                 nsub, sid, pre, fault>>

\* lines 158-273
InvoiceSave(p) ==
  /\ pc[p] = "invoice_save"
  /\ invoices' = WriteFile(invoices, Basename(path[p]), Doc(bd[p], now, sid[p]))
  /\ pc' = [pc EXCEPT ![p] = "backfill_load"]
  /\ UNCHANGED <<form, sub, bd, wb, path, outcome, sales, now,
                 nsub, sid, pre, fault>>

\* lines 147-148, reached from create_formatted_invoice
InvoiceFail(p) ==
  /\ pc[p] = "invoice_save"
  /\ outcome' = [outcome EXCEPT ![p] =
       [title |-> "Error", msg |-> "Failed creating invoice file",
        path |-> <<>>]]
  /\ pc' = [pc EXCEPT ![p] = "idle"]
  /\ fault' = [fault EXCEPT ![p] = "doc"]
  /\ bd' = [bd EXCEPT ![p] = NoBreakdown]
  /\ wb' = [wb EXCEPT ![p] = NoWorkbook]
  /\ path' = [path EXCEPT ![p] = NoPath]
  /\ UNCHANGED <<form, sub, sales, invoices, now, nsub, sid, pre>>

\* lines 139-141
BackfillLoad(p) ==
  /\ pc[p] = "backfill_load"
  /\ wb' = [wb EXCEPT ![p] = sales]
  /\ pc' = [pc EXCEPT ![p] = "backfill_save"]
  /\ UNCHANGED <<form, sub, bd, path, outcome, sales, invoices, now,
                 nsub, sid, pre, fault>>

\* lines 142-146; open_file reports its own failure in a dialog of its own
\* and returns, so the call ends the same way whether the viewer opens
BackfillSave(p) ==
  /\ pc[p] = "backfill_save"
  /\ sales' = SetCell18(wb[p], MaxRow(wb[p]), Basename(path[p]))
  /\ outcome' = [outcome EXCEPT ![p] =
       [title |-> "Invoice Created", msg |-> "Invoice saved",
        path |-> path[p]]]
  /\ pc' = [pc EXCEPT ![p] = "idle"]
  /\ bd' = [bd EXCEPT ![p] = NoBreakdown]
  /\ wb' = [wb EXCEPT ![p] = NoWorkbook]
  /\ path' = [path EXCEPT ![p] = NoPath]
  /\ UNCHANGED <<form, sub, invoices, now, nsub, sid, pre, fault>>

\* lines 147-148, reached from lines 139-143
BackfillFail(p) ==
  /\ pc[p] \in {"backfill_load", "backfill_save"}
  /\ outcome' = [outcome EXCEPT ![p] =
       [title |-> "Error", msg |-> "Failed creating invoice file",
        path |-> <<>>]]
  /\ pc' = [pc EXCEPT ![p] = "idle"]
  /\ fault' = [fault EXCEPT ![p] = "backfill"]
  /\ bd' = [bd EXCEPT ![p] = NoBreakdown]
  /\ wb' = [wb EXCEPT ![p] = NoWorkbook]
  /\ path' = [path EXCEPT ![p] = NoPath]
  /\ UNCHANGED <<form, sub, sales, invoices, now, nsub, sid, pre>>

Step(p) ==
  \/ Generate(p)
  \/ EditAndGenerate(p)
  \/ AppendLoad(p)
  \/ AppendSave(p)
  \/ AppendFail(p)
  \/ InvoiceName(p)
  \/ InvoiceSave(p)
  \/ InvoiceFail(p)
  \/ BackfillLoad(p)
  \/ BackfillSave(p)
  \/ BackfillFail(p)

\* one operator, one process: the program as it is meant to be used
Next == Step(1) \/ Tick

Spec == Init /\ [][Next]_vars

\* two processes on the same sales.xlsx and invoices/, one call each and no
\* step raising: the race of section 5
SecondForm ==
  [FilledForm EXCEPT !.customer = <<"B">>, !.gst_type = InterLabel,
                     !.weight = <<"2">>]

InitRace == InitForms(FilledForm, SecondForm)

RaceStep(p) ==
  \/ sid[p] = 0 /\ Generate(p)
  \/ AppendLoad(p)
  \/ AppendSave(p)
  \/ InvoiceName(p)
  \/ InvoiceSave(p)
  \/ BackfillLoad(p)
  \/ BackfillSave(p)

NextRace == (\E p \in Procs : RaceStep(p)) \/ Tick

SpecRace == InitRace /\ [][NextRace]_vars

\* the calculator alone, over a product of field values
NextCalc == Generate(1)

SpecCalc == InitCalc /\ [][NextCalc]_vars

----------------------------------------------------------------------------
(* Vocabulary of the properties *)

Labels == {IntraLabel, InterLabel}

RealFields(r) == {r.rate, r.weight, r.making, r.discount, r.gst}

Rows == sales.rows
LastRow == Rows[Len(Rows)]
Files == DOMAIN invoices

Succeeded(p) == outcome[p].title = "Invoice Created"
Failed(p) == outcome[p].title = "Error"
Rejected(p) == outcome[p].title = "Validation"

\* the file component of a path handed back to the operator
FileOf(pth) == pth[2]

\* a row with its invoice identifier masked
Masked(row) == [row EXCEPT !.invoice_file = Blank]

MinOf(S) == CHOOSE x \in S : \A y \in S : x <= y

----------------------------------------------------------------------------
(* C1 *)

\* the raw fields fail validation, as the error taxonomy lists the causes
FailsValidation(r) ==
  \/ r.cust = <<>>
  \/ ~IsDigit(r.phone)
  \/ Len(r.phone) < 6
  \/ \E x \in RealFields(r) : ~FloatOk(x)
  \/ ~IntOk(r.carat)
  \/ IntOk(r.carat) /\ IntVal(r.carat) \notin 1..24
  \/ FloatOk(r.weight) /\ FloatVal(r.weight).n <= 0
  \/ r.gst_type \notin Labels

\* C1: a call of generate_invoice whose raw fields fail validation writes
\* nothing; no step taken while the fields read by the current call are
\* invalid changes sales.xlsx or any invoice document, and the call is over
\* as soon as it has read them.
C1_NoWritesOnInvalid ==
  [][\A p \in Procs :
       (sub'[p] # <<>> /\ FailsValidation(sub'[p]))
         => /\ sales' = sales
            /\ invoices' = invoices
            /\ pc'[p] = "idle"]_vars

C1_Witness ==
  /\ Rejected(1)
  /\ FailsValidation(sub[1])
  /\ Rows # <<>>
  /\ Files # {}
  /\ sales = pre[1].sales
  /\ invoices = pre[1].invoices

----------------------------------------------------------------------------
(* C2 *)

\* C2: when a call has ended with the "Invoice Created" dialog, the ledger is
\* the ledger the call found plus exactly one row, that row was written by
\* this call, its Invoice_File cell is the name of the file the call
\* reported, and that file holds this call's document with the same Grand
\* Total as the row.
C2_SuccessIsConsistent ==
  \A p \in Procs :
    Succeeded(p) =>
      LET old == pre[p].sales.rows
          fn  == FileOf(outcome[p].path)
      IN  /\ Len(Rows) = Len(old) + 1
          /\ \A i \in 1..Len(old) : Rows[i] = old[i]
          /\ sales.header18 = pre[p].sales.header18
          /\ LastRow.sid = sid[p]
          /\ LastRow.invoice_file = fn
          /\ fn \in Files
          /\ invoices[fn].sid = sid[p]
          /\ invoices[fn].grand_total = LastRow.grand_total

C2_Witness ==
  /\ Succeeded(1)
  /\ Len(Rows) = 2
  /\ Rows[1].invoice_file # Blank
  /\ LastRow.invoice_file = FileOf(outcome[1].path)
  /\ LastRow.grand_total # Rows[1].grand_total

----------------------------------------------------------------------------
(* C3 *)

\* C3: a call whose ledger append raised ends with an error dialog and leaves
\* both stores as it found them (no document, no back-fill); a call whose
\* document step raised ends with an error dialog, creates no document, and
\* leaves the row it appended in place with an empty Invoice_File cell.
C3_FailureAborts ==
  \A p \in Procs :
    /\ fault[p] = "append" =>
         /\ pc[p] = "idle"
         /\ Failed(p)
         /\ outcome[p].path = <<>>
         /\ sales = pre[p].sales
         /\ invoices = pre[p].invoices
    /\ fault[p] = "doc" =>
         /\ pc[p] = "idle"
         /\ Failed(p)
         /\ outcome[p].path = <<>>
         /\ invoices = pre[p].invoices
         /\ sales.header18 = pre[p].sales.header18
         /\ Len(Rows) = Len(pre[p].sales.rows) + 1
         /\ \A i \in 1..Len(pre[p].sales.rows) : Rows[i] = pre[p].sales.rows[i]
         /\ LastRow.sid = sid[p]
         /\ LastRow.invoice_file = Blank

C3_Witness ==
  /\ fault[1] = "doc"
  /\ Failed(1)
  /\ Len(Rows) = 2
  /\ Rows[1].invoice_file # Blank
  /\ Rows[2].invoice_file = Blank

----------------------------------------------------------------------------
(* C4 *)

\* C4: a call whose document was written but whose back-fill raised is still
\* a success: it ends with the created document's path handed to the
\* operator.
C4_BackfillFailureIsSuccess ==
  \A p \in Procs :
    fault[p] = "backfill" => Succeeded(p) /\ outcome[p].path # <<>>

----------------------------------------------------------------------------
(* C5 *)

\* C5: with one operator the ledger is append-only apart from the back-fill:
\* every step keeps the header and every existing row in place and in order,
\* adds at most one row (with an empty Invoice_File cell, tagged with the
\* running call), changes no cell other than Invoice_File, and changes an
\* Invoice_File cell only from empty to a file name, only in the last row,
\* and only when that row was appended by the running call.
C5_AppendOnly ==
  [][/\ sales'.header18 = sales.header18
     /\ Len(sales'.rows) \in {Len(Rows), Len(Rows) + 1}
     /\ \A i \in 1..Len(Rows) :
          /\ Masked(sales'.rows[i]) = Masked(Rows[i])
          /\ sales'.rows[i].invoice_file # Rows[i].invoice_file =>
               /\ Rows[i].invoice_file = Blank
               /\ sales'.rows[i].invoice_file # Blank
               /\ i = Len(Rows)
               /\ Rows[i].sid = sid[1]
     /\ Len(sales'.rows) = Len(Rows) + 1 =>
          /\ sales'.rows[Len(Rows) + 1].invoice_file = Blank
          /\ sales'.rows[Len(Rows) + 1].sid = sid[1]]_vars

C5_Witness ==
  /\ pc[1] = "idle"
  /\ Len(Rows) = 2
  /\ Rows[1].invoice_file = Blank
  /\ Rows[2].invoice_file # Blank

----------------------------------------------------------------------------
(* C6 *)

\* C6: with one operator an invoice document, once written, is never
\* modified: a step that writes a document leaves every existing document in
\* place with its contents.
C6_InvoicesNeverModified ==
  [][invoices' # invoices =>
       \A f \in Files : f \in DOMAIN invoices' /\ invoices'[f] = invoices[f]]_vars

----------------------------------------------------------------------------
(* C7, C8 *)

\* C7: the stored grand_total is the sum of the stored taxable value and the
\* stored tax total.
C7_GrandTotalAddsUp ==
  \A p \in Procs :
    bd[p] # NoBreakdown =>
      bd[p].grand_total = bd[p].taxable + bd[p].gst_total

\* C8: the stored tax total is the sum of the stored CGST, SGST and IGST.
C8_TaxTotalAddsUp ==
  \A p \in Procs :
    bd[p] # NoBreakdown =>
      bd[p].gst_total = bd[p].cgst + bd[p].sgst + bd[p].igst

----------------------------------------------------------------------------
(* C9 *)

RuleMsg(k) ==
  CASE k = 1 -> MsgName [] k = 2 -> MsgPhone [] k = 3 -> MsgNumeric
    [] k = 4 -> MsgCarat [] k = 5 -> MsgWeight [] k = 6 -> MsgGstType

\* the six rules as the claim words them: carat's integer parse is rule 4
ClaimedViolated(r) ==
  {k \in 1..6 :
     \/ k = 1 /\ r.cust = <<>>
     \/ k = 2 /\ (~IsDigit(r.phone) \/ Len(r.phone) < 6)
     \/ k = 3 /\ \E x \in RealFields(r) : ~FloatOk(x)
     \/ k = 4 /\ (~IntOk(r.carat) \/ IntVal(r.carat) \notin 1..24)
     \/ k = 5 /\ FloatOk(r.weight) /\ FloatVal(r.weight).n <= 0
     \/ k = 6 /\ r.gst_type \notin Labels}

\* the same with carat's integer parse counted under rule 3
AmendedViolated(r) ==
  {k \in 1..6 :
     \/ k = 1 /\ r.cust = <<>>
     \/ k = 2 /\ (~IsDigit(r.phone) \/ Len(r.phone) < 6)
     \/ k = 3 /\ ((\E x \in RealFields(r) : ~FloatOk(x)) \/ ~IntOk(r.carat))
     \/ k = 4 /\ IntOk(r.carat) /\ IntVal(r.carat) \notin 1..24
     \/ k = 5 /\ FloatOk(r.weight) /\ FloatVal(r.weight).n <= 0
     \/ k = 6 /\ r.gst_type \notin Labels}

ReportsLowest(p, violated) ==
  IF violated = {}
  THEN ~Rejected(p) /\ pc[p] = "append_load"
  ELSE Rejected(p) /\ pc[p] = "idle" /\ outcome[p].msg = RuleMsg(MinOf(violated))

\* C9 as stated: the call reports the message of the lowest-numbered rule
\* violated, with carat's integer parse belonging to rule 4.
C9_AsStated ==
  sid[1] # 0 => ReportsLowest(1, ClaimedViolated(sub[1]))

\* C9 as amended: the call reports the message of the lowest-numbered rule
\* violated, where rule 3 is "rate, weight, making charge, discount and tax
\* rate parse as reals and carat parses as an integer" and rule 4 is "carat
\* lies in 1..24"; an input violating no rule is accepted.
C9_FirstFailureWins ==
  sid[1] # 0 => ReportsLowest(1, AmendedViolated(sub[1]))

C9_Witness ==
  /\ Rejected(1)
  /\ ~IntOk(sub[1].carat)
  /\ \A x \in RealFields(sub[1]) : FloatOk(x)
  /\ FloatVal(sub[1].weight).n <= 0
  /\ sub[1].gst_type \notin Labels
  /\ outcome[1].msg = MsgNumeric

----------------------------------------------------------------------------
(* C10 *)

Done(p) == sid[p] # 0 /\ pc[p] = "idle"

RowsOf(p) == {i \in 1..Len(Rows) : Rows[i].sid = sid[p]}

\* p's call had ended before q's began
Before(p, q) ==
  \E i \in 1..Len(pre[q].sales.rows) :
    /\ pre[q].sales.rows[i].sid = sid[p]
    /\ pre[q].sales.rows[i].invoice_file # Blank

\* C10: two concurrent calls can lose a row or put an identifier into the
\* other call's row (C10_Witness is such a state), and they do so only by
\* interleaving: when one of two successful calls ended before the other
\* began, the ledger holds one row for each, in order, each naming the file
\* its own call reported.
C10_OnlyInterleavingCorrupts ==
  \A p, q \in Procs :
    (p # q /\ Done(p) /\ Done(q) /\ Before(p, q)) =>
      /\ Len(Rows) = 2
      /\ Rows[1].sid = sid[p]
      /\ Rows[1].invoice_file = FileOf(outcome[p].path)
      /\ Rows[2].sid = sid[q]
      /\ Rows[2].invoice_file = FileOf(outcome[q].path)

\* both calls reported success, the row of call 1 is gone, and the row of
\* call 2 names the file of call 1
C10_Witness ==
  /\ Done(1) /\ Done(2)
  /\ Succeeded(1) /\ Succeeded(2)
  /\ RowsOf(1) = {}
  /\ FileOf(outcome[1].path) # FileOf(outcome[2].path)
  /\ \E i \in RowsOf(2) : Rows[i].invoice_file = FileOf(outcome[1].path)

====
